---- MODULE Spec2Model ----
(***************************************************************************)
(* Chess openings tier list: persistence layer (save_to_database), tier    *)
(* overlay (update_tier_list), query layer (get_tier_list, get_openings,   *)
(* get_top_performers) and discovery engine (discover_openings_tree).      *)
(*                                                                         *)
(* The relational store is SQLAlchemy over SQLite: a Session buffers new   *)
(* objects until flush, a commit flushes and makes the transaction         *)
(* durable, a failed flush rolls the transaction back, and sessions are    *)
(* created with autoflush=False (database/models.py get_session).          *)
(***************************************************************************)
EXTENDS Integers, Sequences, FiniteSets, TLC

VARIABLES
  openings,   \* committed rows of table openings
  stats,      \* committed rows of table opening_statistics
  tiers,      \* committed rows of table tier_list_entries
  logs,       \* committed rows of table data_update_logs, in id order
  save,       \* the running save_to_database call (its session and position)
  prior,      \* openings/stats as they were committed when the call started
  apply,      \* the running update_tier_list call (its session and position)
  tiersBefore,\* tier_list_entries as committed when update_tier_list started
  resp,       \* the response of the last query operation
  disc,       \* the running discover_openings_tree call
  peer        \* a second update_tier_list request, served by another worker

vars == <<openings, stats, tiers, logs, save, prior, apply, tiersBefore, resp, disc, peer>>

(***************************************************************************)
(* Bounds                                                                  *)
(***************************************************************************)
MaxRuns == 2      \* save_to_database calls in one behaviour
MaxBatch == 2     \* openings in one loaded batch
MaxUpdates == 2   \* updates in one update_tier_list call
MaxTierRows == 3  \* rows of tier_list_entries
MaxStatRows == 2  \* rows of opening_statistics in a queried store
MaxFirst == 2     \* first moves the provider lists
MaxCont == 2      \* continuations the provider lists for a first move
MaxOpenings == 2  \* largest max_openings a discovery is asked for
MaxCountSteps == 11  \* largest white, black or draw count scored, in fifties
MaxUpdateFirst == 1  \* first moves the provider lists during a run_update

(***************************************************************************)
(* Helpers                                                                 *)
(***************************************************************************)
Range(s) == {s[i] : i \in 1..Len(s)}

MaxOf(S) == IF S = {} THEN 0 ELSE CHOOSE x \in S : \A y \in S : y <= x

\* sqlite rowid allocation for an INTEGER PRIMARY KEY: largest id present + 1
NextId(rows) == MaxOf({r.id : r \in rows}) + 1

NoResp == [op |-> "none"]

\* no discover_openings_tree call is running
IdleDisc ==
  [pc |-> "idle", max_openings |-> 0, first_moves |-> <<>>, fi |-> 1,
   continuations |-> <<>>, ci |-> 1, discovered |-> <<>>, calls |-> <<>>,
   result |-> <<>>]

\* the tables as create_database leaves them
InitStore ==
  /\ openings = {}
  /\ stats = {}
  /\ tiers = {}
  /\ logs = <<>>

(***************************************************************************)
(* Discovered lines as written to the snapshot file                        *)
(***************************************************************************)
RawLines ==
  { [moves_sequence |-> <<"e4", "e5">>, opening_name |-> "Kings Pawn",
     total_games |-> 1000, performance_score |-> 47, collected_at |-> 1],
    [moves_sequence |-> <<"d4", "d5">>, opening_name |-> "Queens Pawn",
     total_games |-> 200, performance_score |-> 52, collected_at |-> 2] }

\* batches: sequences of distinct lines, at most MaxBatch long
Batches ==
  { b \in UNION { [1..n -> RawLines] : n \in 0..MaxBatch } :
      \A i, j \in 1..Len(b) : i # j => b[i] # b[j] }

\* process_opening_data: the Opening object for the i-th raw line; line 61:
\* data.get('opening_name', f"Unknown Opening {i}") takes the default only
\* when the line has no such key
MakeOpening(data, i) ==
  [name |-> IF "opening_name" \in DOMAIN data THEN data.opening_name
            ELSE "Unknown Opening " \o ToString(i),
   moves_sequence |-> data.moves_sequence,
   popularity_rank |-> i, is_active |-> TRUE]

\* process_opening_data: the OpeningStatistic object for a raw line
MakeStatistic(data) ==
  [total_games |-> data.total_games,
   performance_score |-> data.performance_score,
   rating_range |-> "all", time_control |-> "all",
   collected_at |-> data.collected_at]

process_opening_data(raw) ==
  [openings |-> [i \in 1..Len(raw) |-> MakeOpening(raw[i], i)],
   statistics |-> [i \in 1..Len(raw) |-> MakeStatistic(raw[i])]]

(***************************************************************************)
(* save_to_database                                                        *)
(***************************************************************************)
\* a timestamp column that holds NULL; readings of the clock are positive
NoTime == 0

\* datetime.utcnow(): a reading later than every reading recorded so far, in
\* the table or in the log object of the running session
UtcNow(s) ==
  1 + MaxOf({logs[k].started_at : k \in 1..Len(logs)}
            \cup {logs[k].completed_at : k \in 1..Len(logs)}
            \cup {s.logObj.started_at, s.logObj.completed_at})

IdleSave ==
  [pc |-> "idle", objs |-> process_opening_data(<<>>),
   tx |-> [openings |-> {}, stats |-> {}], ids |-> <<>>, linked |-> <<>>,
   logObj |-> [status |-> "none", openings_processed |-> 0,
               statistics_updated |-> 0, error |-> "none",
               started_at |-> NoTime, completed_at |-> NoTime],
   logState |-> "transient", logId |-> 0, sess |-> "active",
   fault |-> "none", ret |-> "none"]

\* the statements of the try block, each a place where the database can fail
SaveSteps == {"commit_log", "delete_stats", "delete_openings", "commit_delete",
              "flush_openings", "link", "commit_final"}

\* Session.commit as seen by table data_update_logs: a pending log object is
\* inserted, a persistent one is updated, an expunged one is not written
CommitLog(s) ==
  IF s.logState = "pending" THEN Append(logs, s.logObj)
  ELSE IF s.logState = "persistent" THEN [logs EXCEPT ![s.logId] = s.logObj]
  ELSE logs

OpeningRow(o, id) ==
  [id |-> id, name |-> o.name, moves_sequence |-> o.moves_sequence,
   popularity_rank |-> o.popularity_rank, is_active |-> o.is_active]

StatisticRow(s, id) ==
  [id |-> id, opening_id |-> s.opening_id, total_games |-> s.total_games,
   performance_score |-> s.performance_score, rating_range |-> s.rating_range,
   time_control |-> s.time_control, collected_at |-> s.collected_at]

\* INSERT of the Opening objects in list order, ids allocated from the table
InsertOpenings(table, objs) ==
  table \cup { OpeningRow(objs[i], NextId(table) + i - 1) : i \in 1..Len(objs) }

\* INSERT of the OpeningStatistic objects in list order
InsertStatistics(table, objs) ==
  table \cup { StatisticRow(objs[i], NextId(table) + i - 1) : i \in 1..Len(objs) }

\* lines 89-94: session and in_progress log object are created
SaveBegin(raw) ==
  /\ save.pc = "idle"
  /\ Len(logs) < MaxRuns
  /\ save' = [IdleSave EXCEPT
        !.pc = "commit_log",
        !.objs = process_opening_data(raw),
        !.tx = [openings |-> openings, stats |-> stats],
        !.logObj.status = "in_progress",
        !.logObj.started_at = UtcNow(IdleSave),
        !.logState = "pending"]
  /\ prior' = [openings |-> openings, stats |-> stats]
  /\ UNCHANGED <<openings, stats, tiers, logs, apply, tiersBefore, resp, disc, peer>>

\* lines 97-98: session.add(update_log); session.commit()
SaveCommitLog ==
  /\ save.pc = "commit_log"
  /\ logs' = CommitLog(save)
  /\ save' = [save EXCEPT !.pc = "delete_stats", !.logState = "persistent",
                          !.logId = Len(logs) + 1]
  /\ UNCHANGED <<openings, stats, tiers, prior, apply, tiersBefore, resp, disc, peer>>

\* line 102: session.query(OpeningStatistic).delete()
SaveDeleteStats ==
  /\ save.pc = "delete_stats"
  /\ save' = [save EXCEPT !.pc = "delete_openings", !.tx.stats = {}]
  /\ UNCHANGED <<openings, stats, tiers, logs, prior, apply, tiersBefore, resp, disc, peer>>

\* line 103: session.query(Opening).delete()
SaveDeleteOpenings ==
  /\ save.pc = "delete_openings"
  /\ save' = [save EXCEPT !.pc = "commit_delete", !.tx.openings = {}]
  /\ UNCHANGED <<openings, stats, tiers, logs, prior, apply, tiersBefore, resp, disc, peer>>

\* line 104: session.commit() makes the deletion durable
SaveCommitDelete ==
  /\ save.pc = "commit_delete"
  /\ openings' = save.tx.openings
  /\ stats' = save.tx.stats
  /\ logs' = CommitLog(save)
  /\ save' = [save EXCEPT !.pc = "flush_openings"]
  /\ UNCHANGED <<tiers, prior, apply, tiersBefore, resp, disc, peer>>

\* lines 108-109: session.add_all(openings); session.flush()
SaveFlushOpenings ==
  /\ save.pc = "flush_openings"
  /\ LET base == NextId(save.tx.openings)
     IN save' = [save EXCEPT
          !.pc = "link",
          !.tx.openings = InsertOpenings(save.tx.openings, save.objs.openings),
          !.ids = [i \in 1..Len(save.objs.openings) |-> base + i - 1]]
  /\ UNCHANGED <<openings, stats, tiers, logs, prior, apply, tiersBefore, resp, disc, peer>>

\* lines 112-113 with every statistic linked to the first opening
LinkedOpeningIdFirst(ids, i) == ids[1]

\* lines 112-113: statistic[i].opening_id = openings[i].id
LinkedOpeningId(ids, i) == ids[i]

\* lines 112-124: the statistics are linked, add_all(statistics), and the log
\* object is set to success in memory
SaveLink ==
  /\ save.pc = "link"
  /\ save' = [save EXCEPT
        !.pc = "commit_final",
        !.linked = [i \in 1..Len(save.objs.statistics) |->
                      [opening_id |-> LinkedOpeningId(save.ids, i)] @@ save.objs.statistics[i]],
        !.logObj = [status |-> "success",
                    openings_processed |-> Len(save.objs.openings),
                    statistics_updated |-> Len(save.objs.statistics),
                    error |-> "none",
                    started_at |-> save.logObj.started_at,
                    completed_at |-> UtcNow(save)]]
  /\ UNCHANGED <<openings, stats, tiers, logs, prior, apply, tiersBefore, resp, disc, peer>>

\* lines 126-128: session.commit() flushes the statistics and the log; True
SaveCommitFinal ==
  /\ save.pc = "commit_final"
  /\ openings' = save.tx.openings
  /\ stats' = InsertStatistics(save.tx.stats, save.linked)
  /\ logs' = CommitLog(save)
  /\ save' = [save EXCEPT !.pc = "returned", !.ret = "true",
                          !.tx.stats = InsertStatistics(save.tx.stats, save.linked)]
  /\ UNCHANGED <<tiers, prior, apply, tiersBefore, resp, disc, peer>>

\* What an exception raised by the statement at `step` leaves in the session.
\* A failed commit rolls the transaction back and expunges the objects that
\* were pending in it; a failed explicit flush rolls back too and leaves the
\* session unusable until rollback() is called; a failed DELETE statement or
\* a failure of the linking loop leaves the open transaction as it is.
AfterFault(s, step) ==
  IF step = "commit_log"
    THEN [s EXCEPT !.logState = "transient"]
  ELSE IF step \in {"commit_delete", "commit_final"}
    THEN [s EXCEPT !.tx = [openings |-> openings, stats |-> stats]]
  ELSE IF step = "flush_openings"
    THEN [s EXCEPT !.tx = [openings |-> openings, stats |-> stats],
                   !.sess = "inactive"]
  ELSE s

\* line 130: an exception raised inside the try block reaches the handler
SaveFault ==
  /\ save.pc \in SaveSteps
  /\ save' = [AfterFault(save, save.pc) EXCEPT !.pc = "handler", !.fault = save.pc]
  /\ UNCHANGED <<openings, stats, tiers, logs, prior, apply, tiersBefore, resp, disc, peer>>

\* lines 131-140 and process_file 161-163: the log object is set to error and
\* session.commit() is called before session.rollback(). On a session whose
\* flush failed the commit raises; the exception leaves save_to_database and
\* process_file returns False. Otherwise the commit makes durable whatever
\* the open transaction holds, together with the log update.
SaveHandler ==
  /\ save.pc = "handler"
  /\ LET s == [save EXCEPT !.logObj.status = "error",
                            !.logObj.error = save.fault,
                            !.logObj.completed_at = UtcNow(save)]
     IN IF s.sess = "inactive"
          THEN /\ save' = [s EXCEPT !.pc = "returned", !.ret = "false_raised"]
               /\ UNCHANGED <<openings, stats, logs>>
          ELSE /\ openings' = s.tx.openings
               /\ stats' = s.tx.stats
               /\ logs' = CommitLog(s)
               /\ save' = [s EXCEPT !.pc = "returned", !.ret = "false"]
  /\ UNCHANGED <<tiers, prior, apply, tiersBefore, resp, disc, peer>>

\* the caller has the result; the next run may start
SaveReturn ==
  /\ save.pc = "returned"
  /\ save' = IdleSave
  /\ UNCHANGED <<openings, stats, tiers, logs, prior, apply, tiersBefore, resp, disc, peer>>

(***************************************************************************)
(* Tier-list overlay: update_tier_list                                     *)
(***************************************************************************)
\* optional response fields: None is the empty tuple, a value x is <<x>>
Null == <<>>
Some(x) == <<x>>

\* request contexts (rating_range, time_control, user_id query parameters)
Contexts ==
  { [rating_range |-> "all", time_control |-> "all", user_id |-> "default"],
    [rating_range |-> "all", time_control |-> "all", user_id |-> "u2"],
    [rating_range |-> "1800", time_control |-> "all", user_id |-> "default"] }

\* TierListUpdate payloads
TierUpdates ==
  { [opening_id |-> 1, tier_rank |-> "A", tier_position |-> 1],
    [opening_id |-> 1, tier_rank |-> "S", tier_position |-> 2],
    [opening_id |-> 2, tier_rank |-> "A", tier_position |-> 1] }

UpdateLists == UNION { [1..n -> TierUpdates] : n \in 0..MaxUpdates }

IdleApply ==
  [pc |-> "idle", updates |-> <<>>, i |-> 1,
   ctx |-> [rating_range |-> "all", time_control |-> "all", user_id |-> "default"],
   new |-> <<>>, dirty |-> {}, fault |-> FALSE, ret |-> "none"]

\* the filter without its user_id conjunct
TierMatchesAnyUser(table, oid, rr, tc, uid) ==
  { e \in table : /\ e.opening_id = oid
                  /\ e.rating_range = rr
                  /\ e.time_control = tc }

\* main.py 227-232 and 196-201: the rows the filter on the four key columns
\* selects. The query reads the table: with autoflush=False the entries added
\* to the session and not yet flushed are not among them.
TierMatches(table, oid, rr, tc, uid) ==
  { e \in table : /\ e.opening_id = oid
                  /\ e.rating_range = rr
                  /\ e.time_control = tc
                  /\ e.user_id = uid }

\* the in-session value of a persistent row: an attribute set earlier in
\* the same call overrides the stored one
Modified(dirty, e) ==
  IF \E d \in dirty : d.id = e.id
  THEN LET d == CHOOSE d \in dirty : d.id = e.id
       IN [e EXCEPT !.tier_rank = d.tier_rank, !.tier_position = d.tier_position]
  ELSE e

\* lines 239-246: a new TierListEntry object
NewEntry(u, ctx) ==
  [opening_id |-> u.opening_id, tier_rank |-> u.tier_rank,
   tier_position |-> u.tier_position, rating_range |-> ctx.rating_range,
   time_control |-> ctx.time_control, user_id |-> ctx.user_id]

TierRow(e, id) == [id |-> id] @@ e

\* line 249: db.commit() flushes the modified rows and inserts the new ones
TiersAfterCommit(a) ==
  LET updated == { Modified(a.dirty, e) : e \in tiers }
  IN updated \cup { TierRow(a.new[k], NextId(tiers) + k - 1) : k \in 1..Len(a.new) }

\* a handler that commits what the loop had done before the failure
TiersKeptOnFault(a) ==
  { Modified(a.dirty, e) : e \in tiers } \cup
  { [id |-> NextId(tiers) + k - 1] @@ a.new[k] : k \in 1..Len(a.new) }

\* line 253: db.rollback() discards the modifications and the new objects
TiersAfterRollback(a) == tiers

\* the request arrives; get_db opens a session
ApplyBegin(updates, ctx) ==
  /\ apply.pc = "idle"
  /\ Cardinality(tiers) + Len(updates) <= MaxTierRows
  /\ apply' = [IdleApply EXCEPT !.pc = "loop", !.updates = updates, !.ctx = ctx]
  /\ tiersBefore' = tiers
  /\ resp' = NoResp
  /\ UNCHANGED <<openings, stats, tiers, logs, save, prior, disc, peer>>

\* lines 225-247: one iteration of the loop. first() has no ORDER BY: when
\* several rows match, any of them is the one returned.
LoopStep(a) ==
  LET u == a.updates[a.i]
      m == TierMatches(tiers, u.opening_id, a.ctx.rating_range,
                       a.ctx.time_control, a.ctx.user_id)
  IN IF m # {}
     THEN { [a EXCEPT
               !.i = @ + 1,
               !.dirty = { d \in @ : d.id # existing.id } \cup
                         { [id |-> existing.id, tier_rank |-> u.tier_rank,
                            tier_position |-> u.tier_position] }] :
              existing \in m }
     ELSE { [a EXCEPT !.i = @ + 1, !.new = Append(@, NewEntry(u, a.ctx))] }

ApplyStep ==
  /\ apply.pc = "loop"
  /\ apply.i <= Len(apply.updates)
  /\ apply' \in LoopStep(apply)
  /\ UNCHANGED <<openings, stats, tiers, logs, save, prior, tiersBefore, resp, disc, peer>>

\* lines 249-250: commit and the success message
ApplyCommit ==
  /\ apply.pc = "loop"
  /\ apply.i > Len(apply.updates)
  /\ tiers' = TiersAfterCommit(apply)
  /\ apply' = [apply EXCEPT !.pc = "returned", !.ret = "ok"]
  /\ UNCHANGED <<openings, stats, logs, save, prior, tiersBefore, resp, disc, peer>>

\* lines 252-254: a query of the loop or the commit raises; rollback, HTTP 500
ApplyFault ==
  /\ apply.pc = "loop"
  /\ tiers' = TiersAfterRollback(apply)
  /\ apply' = [apply EXCEPT !.pc = "returned", !.fault = TRUE, !.ret = "error"]
  /\ UNCHANGED <<openings, stats, logs, save, prior, tiersBefore, resp, disc, peer>>

\* the response is sent; get_db closes the session
ApplyReturn ==
  /\ apply.pc = "returned"
  /\ apply' = IdleApply
  /\ UNCHANGED <<openings, stats, tiers, logs, save, prior, tiersBefore, resp, disc, peer>>

\* update_tier_list served by a second worker process on the same database:
\* the request arrives; get_db opens a session
PeerBegin(updates, ctx) ==
  /\ peer.pc = "idle"
  /\ Cardinality(tiers) + Len(updates) <= MaxTierRows
  /\ peer' = [IdleApply EXCEPT !.pc = "loop", !.updates = updates, !.ctx = ctx]
  /\ UNCHANGED <<openings, stats, tiers, logs, save, prior, apply, tiersBefore, resp, disc>>

\* lines 225-247 in the second worker
PeerStep ==
  /\ peer.pc = "loop"
  /\ peer.i <= Len(peer.updates)
  /\ peer' \in LoopStep(peer)
  /\ UNCHANGED <<openings, stats, tiers, logs, save, prior, apply, tiersBefore, resp, disc>>

\* lines 249-250 in the second worker
PeerCommit ==
  /\ peer.pc = "loop"
  /\ peer.i > Len(peer.updates)
  /\ tiers' = TiersAfterCommit(peer)
  /\ peer' = [peer EXCEPT !.pc = "returned", !.ret = "ok"]
  /\ UNCHANGED <<openings, stats, logs, save, prior, apply, tiersBefore, resp, disc>>

\* the second worker's response is sent; get_db closes the session
PeerReturn ==
  /\ peer.pc = "returned"
  /\ peer' = IdleApply
  /\ UNCHANGED <<openings, stats, tiers, logs, save, prior, apply, tiersBefore, resp, disc>>

(***************************************************************************)
(* Query layer: get_tier_list                                              *)
(***************************************************************************)
\* all orderings of a finite set
Perms(S) ==
  { f \in [1..Cardinality(S) -> S] : \A i, j \in 1..Cardinality(S) : i # j => f[i] # f[j] }

\* the columns of opening_statistics that the rows of the model carry
StatisticColumns == {"performance_score", "total_games", "collected_at"}

\* the value of a column in a joined (Opening, OpeningStatistic) row
FieldOf(p, field) ==
  CASE field = "performance_score" -> p[2].performance_score
    [] field = "total_games" -> p[2].total_games
    [] field = "collected_at" -> p[2].collected_at

\* ORDER BY field [DESC]: every ordering the database may return (the order
\* of rows with equal keys is not determined)
SortedByField(S, field, descending) ==
  { f \in Perms(S) : \A i \in 1..(Cardinality(S) - 1) :
      IF descending THEN FieldOf(f[i], field) >= FieldOf(f[i + 1], field)
                    ELSE FieldOf(f[i], field) <= FieldOf(f[i + 1], field) }

\* a slice that cuts nothing
LimitNone(seq, n) == seq

\* LIMIT n
Limit(seq, n) == SubSeq(seq, 1, IF Len(seq) < n THEN Len(seq) ELSE n)

TierListLimit == 50

\* lines 176-179: max(collected_at) GROUP BY opening_id, over every row of
\* opening_statistics
LatestCollectedAt(oid) ==
  MaxOf({ s.collected_at : s \in { t \in stats : t.opening_id = oid } })

\* lines 165-185: the joined (Opening, OpeningStatistic) rows of the query
TierListRows(rr, tc) ==
  { p \in openings \X stats :
      /\ p[1].id = p[2].opening_id
      /\ p[1].is_active
      /\ (rr # "all" => p[2].rating_range = rr)
      /\ (tc # "all" => p[2].time_control = tc)
      /\ p[2].collected_at = LatestCollectedAt(p[2].opening_id) }

\* lines 196-207: the tier fields attached to one opening
TierFields(oid, rr, tc, uid) ==
  LET m == TierMatches(tiers, oid, rr, tc, uid)
  IN IF m = {}
     THEN { [tier_rank |-> Null, tier_position |-> Null] }
     ELSE { [tier_rank |-> Some(e.tier_rank), tier_position |-> Some(e.tier_position)] :
              e \in m }

\* lines 156-211
GetTierList(ctx) ==
  /\ apply.pc = "idle"
  /\ resp = NoResp
  /\ \E rows \in SortedByField(TierListRows(ctx.rating_range, ctx.time_control),
                              "performance_score", TRUE) :
       LET results == Limit(rows, TierListLimit)
       IN \E tf \in [1..Len(results) ->
                      UNION { TierFields(o.id, ctx.rating_range, ctx.time_control, ctx.user_id) :
                                o \in openings }] :
            /\ \A k \in 1..Len(results) :
                 tf[k] \in TierFields(results[k][1].id, ctx.rating_range,
                                      ctx.time_control, ctx.user_id)
            /\ resp' = [op |-> "get_tier_list", ctx |-> ctx,
                        result |-> [k \in 1..Len(results) |->
                           [opening |-> results[k][1].id,
                            statistics |-> results[k][2].id,
                            tier_rank |-> tf[k].tier_rank,
                            tier_position |-> tf[k].tier_position]]]
  /\ UNCHANGED <<openings, stats, tiers, logs, save, prior, apply, tiersBefore, disc, peer>>

\* the response of a query has been delivered to the client
QueryReturn ==
  /\ resp # NoResp
  /\ resp' = NoResp
  /\ UNCHANGED <<openings, stats, tiers, logs, save, prior, apply, tiersBefore, disc, peer>>

(***************************************************************************)
(* Specification of the tier-list overlay: the store holds a loaded        *)
(* snapshot, tier updates and tier-list queries arrive one at a time       *)
(***************************************************************************)
LoadedBatch ==
  << CHOOSE r \in RawLines : r.moves_sequence[1] = "e4",
     CHOOSE r \in RawLines : r.moves_sequence[1] = "d4" >>

LoadedOpenings == InsertOpenings({}, process_opening_data(LoadedBatch).openings)

LoadedStats ==
  InsertStatistics({},
    [i \in 1..Len(LoadedBatch) |->
       [opening_id |-> i] @@ process_opening_data(LoadedBatch).statistics[i]])

InitTier ==
  /\ openings = LoadedOpenings
  /\ stats = LoadedStats
  /\ tiers = {}
  /\ logs = <<>>
  /\ save = IdleSave
  /\ prior = [openings |-> {}, stats |-> {}]
  /\ apply = IdleApply
  /\ tiersBefore = {}
  /\ peer = IdleApply
  /\ resp = NoResp
  /\ disc = IdleDisc

NextTier ==
  \/ \E u \in UpdateLists, ctx \in Contexts : ApplyBegin(u, ctx)
  \/ ApplyStep
  \/ ApplyCommit
  \/ ApplyFault
  \/ ApplyReturn
  \/ \E ctx \in Contexts : GetTierList(ctx)
  \/ QueryReturn

SpecTier == InitTier /\ [][NextTier]_vars

(***************************************************************************)
(* Specification of two workers of the service on one database: each       *)
(* serves update_tier_list requests of one update, in the default context  *)
(* and for either user; the statements of the two sessions interleave      *)
(***************************************************************************)
WorkerContexts == { ctx \in Contexts : ctx.rating_range = "all" }

NextWorkers ==
  \/ \E u \in TierUpdates, ctx \in WorkerContexts : ApplyBegin(<<u>>, ctx)
  \/ ApplyStep
  \/ ApplyCommit
  \/ ApplyReturn
  \/ \E u \in TierUpdates, ctx \in WorkerContexts : PeerBegin(<<u>>, ctx)
  \/ PeerStep
  \/ PeerCommit
  \/ PeerReturn

SpecWorkers == InitTier /\ [][NextWorkers]_vars

(***************************************************************************)
(* Query layer: get_openings and get_top_performers                        *)
(***************************************************************************)
\* main.py 113 and 290: getattr(OpeningStatistic, name, performance_score),
\* for names that are a column or no attribute of the class at all
SortField(name) ==
  IF name \in StatisticColumns THEN name ELSE "performance_score"

\* the distinct elements of a sequence, in order of first appearance (the
\* ORM returns each Opening entity of the row list once)
RECURSIVE Unique(_)
Unique(seq) ==
  IF seq = <<>> THEN <<>>
  ELSE LET front == Unique(SubSeq(seq, 1, Len(seq) - 1))
           last == seq[Len(seq)]
       IN IF last \in Range(front) THEN front ELSE Append(front, last)

NoFilter == "None"

\* main.py 102-110 with each filter looked for on any row of the opening
OpeningsRowsAnyRow(q) ==
  { p \in openings \X stats :
      /\ p[1].id = p[2].opening_id
      /\ (q.rating_range # NoFilter =>
            \E r \in stats : r.opening_id = p[1].id /\ r.rating_range = q.rating_range)
      /\ (q.time_control # NoFilter =>
            \E r \in stats : r.opening_id = p[1].id /\ r.time_control = q.time_control)
      /\ (q.min_games # 0 =>
            \E r \in stats : r.opening_id = p[1].id /\ r.total_games >= q.min_games) }

\* main.py 102-110: Opening JOIN OpeningStatistic with the optional filters
OpeningsRows(q) ==
  { p \in openings \X stats :
      /\ p[1].id = p[2].opening_id
      /\ (q.rating_range # NoFilter => p[2].rating_range = q.rating_range)
      /\ (q.time_control # NoFilter => p[2].time_control = q.time_control)
      /\ (q.min_games # 0 => p[2].total_games >= q.min_games) }

\* main.py 112-122: the responses get_openings can give to query q
OpeningsResponses(q) ==
  { [status |-> "ok",
     result |-> Unique([k \in 1..Len(Limit(rows, q.limit)) |-> rows[k][1].id])] :
      rows \in SortedByField(OpeningsRows(q), SortField(q.sort_by), q.order = "desc") }

\* main.py 90-122
GetOpenings(q) ==
  /\ resp = NoResp
  /\ \E r \in OpeningsResponses(q) :
       resp' = [op |-> "get_openings", query |-> q,
                status |-> r.status, result |-> r.result]
  /\ UNCHANGED <<openings, stats, tiers, logs, save, prior, apply, tiersBefore, disc, peer>>

MinGamesTopPerformers == 100

\* main.py 292-297: active openings joined to statistics with enough games
TopPerformersRows ==
  { p \in openings \X stats :
      /\ p[1].id = p[2].opening_id
      /\ p[1].is_active
      /\ p[2].total_games >= MinGamesTopPerformers }

\* main.py 290-309: the responses get_top_performers can give. Line 306 reads
\* getattr(statistic, metric) without a default for every returned row.
TopPerformersResponses(metric, limit) ==
  { IF Len(rows) > 0 /\ limit > 0 /\ metric \notin StatisticColumns
    THEN [status |-> "error", result |-> <<>>]
    ELSE [status |-> "ok",
          result |-> [k \in 1..Len(Limit(rows, limit)) |->
                        [opening |-> rows[k][1].id,
                         statistics |-> rows[k][2].id,
                         metric_value |-> FieldOf(rows[k], metric)]]] :
      rows \in SortedByField(TopPerformersRows, SortField(metric), TRUE) }

\* main.py 282-309
GetTopPerformers(metric, limit) ==
  /\ resp = NoResp
  /\ \E r \in TopPerformersResponses(metric, limit) :
       resp' = [op |-> "get_top_performers", metric |-> metric, limit |-> limit,
                status |-> r.status, result |-> r.result]
  /\ UNCHANGED <<openings, stats, tiers, logs, save, prior, apply, tiersBefore, disc, peer>>

\* main.py 126: every Opening row, active or not, is looked up by id.
\* The variant OpeningByIdAnyRow drops the id condition.
OpeningByIdAnyRow(opening_id) == openings

OpeningById(opening_id) == { o \in openings : o.id = opening_id }

\* main.py 125-132: .first() of the rows with that id, HTTP 404 without one
GetOpening(opening_id) ==
  /\ resp = NoResp
  /\ IF OpeningById(opening_id) = {}
       THEN resp' = [op |-> "get_opening", opening_id |-> opening_id,
                     status |-> "not_found", opening |-> Null]
       ELSE \E o \in OpeningById(opening_id) :
              resp' = [op |-> "get_opening", opening_id |-> opening_id,
                       status |-> "ok", opening |-> Some(o)]
  /\ UNCHANGED <<openings, stats, tiers, logs, save, prior, apply, tiersBefore, disc, peer>>

\* main.py 265-267: the update-log rows the summary looks at. The variant
\* AnyUpdates leaves the status filter out.
AnyUpdates == 1..Len(logs)

SuccessfulUpdates == { k \in 1..Len(logs) : logs[k].status = "success" }

\* a DateTime column as the response carries it
TimeValue(t) == IF t = NoTime THEN Null ELSE Some(t)

\* main.py 265-267, 276: order_by(desc(completed_at)).first() and its
\* completed_at, None without such a row
LastUpdated ==
  IF SuccessfulUpdates = {} THEN Null
  ELSE TimeValue(MaxOf({logs[k].completed_at : k \in SuccessfulUpdates}))

\* main.py 257-279
GetSummary ==
  /\ resp = NoResp
  /\ resp' = [op |-> "summary",
              total_openings |-> Cardinality({o \in openings : o.is_active}),
              total_statistics |-> Cardinality(stats),
              last_updated |-> LastUpdated,
              available_rating_ranges |-> {r.rating_range : r \in stats} \ {""},
              available_time_controls |-> {r.time_control : r \in stats} \ {""}]
  /\ UNCHANGED <<openings, stats, tiers, logs, save, prior, apply, tiersBefore, disc, peer>>

(***************************************************************************)
(* Specification of the query layer: the store is any content the schema   *)
(* admits (the database outlives the loader and is shared with it); the    *)
(* read-only operations are called on it in any order                      *)
(***************************************************************************)
GameScores == << <<50, 60>>, <<100, 50>>, <<200, 40>> >>

NumStatValues == 8 * Len(GameScores)

\* the n-th statistic row content, n in 0..NumStatValues-1
StatValueAt(n) ==
  [opening_id |-> 1 + (n % 2),
   rating_range |-> IF (n \div 2) % 2 = 0 THEN "1800" ELSE "2000",
   time_control |-> "blitz",
   collected_at |-> 1 + ((n \div 4) % 2),
   total_games |-> GameScores[1 + (n \div 8)][1],
   performance_score |-> GameScores[1 + (n \div 8)][2]]

\* tables of at most MaxStatRows rows; ids are given in insertion order
StatTables ==
  { { StatisticRow(StatValueAt(idx[i]), i) : i \in 1..Len(idx) } :
      idx \in { f \in UNION { [1..n -> 0..(NumStatValues - 1)] : n \in 0..MaxStatRows } :
                 \A i \in 1..(Len(f) - 1) : f[i] <= f[i + 1] } }

OpeningTables ==
  { { IF o.id = 2 THEN [o EXCEPT !.is_active = a] ELSE o : o \in LoadedOpenings } :
      a \in BOOLEAN }

SortNames == {"performance_score", "total_games", "bogus"}

OpeningsQueries ==
  [rating_range : {NoFilter, "1800"}, time_control : {NoFilter},
   min_games : {100}, sort_by : SortNames, order : {"desc", "asc"},
   limit : {1, 50}]

InitQuery ==
  /\ openings \in OpeningTables
  /\ stats \in StatTables
  /\ tiers = {}
  /\ logs = <<>>
  /\ save = IdleSave
  /\ prior = [openings |-> {}, stats |-> {}]
  /\ apply = IdleApply
  /\ tiersBefore = {}
  /\ peer = IdleApply
  /\ resp = NoResp
  /\ disc = IdleDisc

NextQuery ==
  \/ \E ctx \in Contexts : GetTierList(ctx)
  \/ \E q \in OpeningsQueries : GetOpenings(q)
  \/ \E metric \in SortNames, limit \in {1, 10} : GetTopPerformers(metric, limit)
  \/ GetSummary
  \/ QueryReturn

SpecQuery == InitQuery /\ [][NextQuery]_vars

(***************************************************************************)
(* Discovery engine: discover_openings_tree                                *)
(***************************************************************************)
MinGames == 100          \* collect_openings.py 189
TopFirstMoves == 8       \* collect_openings.py 171
TopContinuations == 5    \* collect_openings.py 179

\* moves the provider lists, most played first
FirstSans == <<"e4", "d4", "c4">>
ContSans == <<"e5", "c5", "e6">>

\* an entry of the provider's list of moves that has no member "san"
NoSan == "(no san)"

\* (white, black, draws) the provider reports for a two-move line
LineCounts == { <<50, 40, 9>>, <<50, 40, 10>>, <<550, 400, 50>>, <<500, 400, 100>> }

\* the "opening" member of the provider's answer for a line with those
\* counts: null for a position the provider has no name for
LineOpening(c) ==
  IF c = <<50, 40, 10>> THEN Null
  ELSE IF c = <<550, 400, 50>> THEN Some("Sicilian Defense")
  ELSE Some("Kings Pawn Game")

\* the answers of the provider to one call: the call raises, or it returns
\* its counts and its list of moves
FirstMovesAnswers ==
  { [ok |-> FALSE, white |-> 0, black |-> 0, draws |-> 0, moves |-> <<>>,
     opening |-> Null] } \cup
  { [ok |-> TRUE, white |-> 0, black |-> 0, draws |-> 0,
     moves |-> SubSeq(FirstSans, 1, n), opening |-> Null] : n \in 0..MaxFirst } \cup
  { [ok |-> TRUE, white |-> 0, black |-> 0, draws |-> 0,
     moves |-> <<FirstSans[1], NoSan>>, opening |-> Null] }

BranchAnswers ==
  { [ok |-> FALSE, white |-> 0, black |-> 0, draws |-> 0, moves |-> <<>>,
     opening |-> Null] } \cup
  { [ok |-> TRUE, white |-> 0, black |-> 0, draws |-> 0,
     moves |-> SubSeq(ContSans, 1, n), opening |-> Some("Kings Pawn")] :
      n \in 0..MaxCont } \cup
  { [ok |-> TRUE, white |-> 0, black |-> 0, draws |-> 0,
     moves |-> <<ContSans[1], NoSan>>, opening |-> Some("Kings Pawn")] }

LineAnswers ==
  { [ok |-> FALSE, white |-> 0, black |-> 0, draws |-> 0, moves |-> <<>>,
     opening |-> Null] } \cup
  { [ok |-> TRUE, white |-> c[1], black |-> c[2], draws |-> c[3], moves |-> <<>>,
     opening |-> LineOpening(c)] : c \in LineCounts }

\* lines 137-148: total_games of the statistics returned for a line
TotalGames(a) == a.white + a.black + a.draws

\* line 189: if total_games < 100: continue
BelowFloorNever(total) == FALSE

BelowFloor(total) == total < MinGames

\* lines 130-135 and 202: opening_info is {} unless the provider's answer
\* has an opening, and the name read from {} is the empty string
OpeningName(a) == IF a.opening = Null THEN "" ELSE a.opening[1]

\* lines 192-197 with Black's win rate not turned into its complement
PerformanceScoreBlackRate(white, black, draws) ==
  40 * white + 40 * black + 20 * draws

\* lines 192-197: with t = white + black + draws the score is
\* (white/t * 0.4 + (1 - black/t) * 0.4 + draws/t * 0.2) * 100; the
\* operator gives the numerator of that fraction over t
PerformanceScore(white, black, draws) ==
  40 * white + 40 * ((white + black + draws) - black) + 20 * draws

\* lines 199-212: the record of a line, gathered at clock reading at;
\* performance_score is score_num / total_games
OpeningData(moves, a, at) ==
  [moves_sequence |-> moves, opening_name |-> OpeningName(a),
   white_wins |-> a.white, black_wins |-> a.black,
   draws |-> a.draws, total_games |-> TotalGames(a),
   score_num |-> PerformanceScore(a.white, a.black, a.draws),
   collected_at |-> at]

\* the sort key reduced to performance_score
KeyAtLeastScoreOnly(x, y) ==
  x.score_num * y.total_games >= y.score_num * x.total_games

\* the sort key (performance_score, total_games) of x is at least that of y
KeyAtLeast(x, y) ==
  \/ x.score_num * y.total_games > y.score_num * x.total_games
  \/ /\ x.score_num * y.total_games = y.score_num * x.total_games
     /\ x.total_games >= y.total_games

\* line 225: list.sort(key=(score, games), reverse=True); the sort is stable
RECURSIVE SortDiscovered(_)
SortDiscovered(seq) ==
  IF seq = <<>> THEN <<>>
  ELSE LET sorted == SortDiscovered(SubSeq(seq, 1, Len(seq) - 1))
           x == seq[Len(seq)]
           n == Cardinality({ k \in 1..Len(sorted) : KeyAtLeast(sorted[k], x) })
       IN SubSeq(sorted, 1, n) \o <<x>> \o SubSeq(sorted, n + 1, Len(sorted))

\* line 228 without the slice
ReturnAll(seq, n) == seq

\* line 228: discovered_openings[:max_openings]
ReturnSlice(seq, n) == Limit(seq, n)

\* lines 224-228: the loops are over
Finish(d) ==
  [d EXCEPT !.pc = "done",
            !.discovered = SortDiscovered(d.discovered),
            !.result = ReturnSlice(SortDiscovered(d.discovered), d.max_openings)]

\* the tests of lines 218 and 221 taken as never true
FullNever(d) == FALSE

\* lines 218 and 221: len(discovered_openings) >= max_openings
Full(d) == Len(d.discovered) >= d.max_openings

\* line 171: the for statement takes the next first move, or the loop ends
NextBranch(d) ==
  IF d.fi + 1 > Len(d.first_moves)
  THEN Finish(d)
  ELSE [d EXCEPT !.pc = "branch", !.fi = d.fi + 1, !.continuations = <<>>, !.ci = 1]

\* a failed lookup that ends the run
AbortRun(d) == Finish(d)

\* lines 176-177: if not second_move_stats: continue
SkipBranch(d) == NextBranch(d)

\* line 179 and 221-222: the inner for statement takes the next continuation,
\* or the inner loop ends and the outer loop goes on
NextLine(d) ==
  IF d.ci + 1 > Len(d.continuations)
  THEN IF Full(d) THEN Finish(d) ELSE NextBranch(d)
  ELSE [d EXCEPT !.ci = d.ci + 1]

\* lines 184-185: if not opening_stats: continue
SkipLine(d) == NextLine(d)

\* lines 79-100: the entries of the answer are read in order inside the try
\* block; an entry without "san" raises KeyError there, the handler logs it
\* and the entries read before it are returned
ReadFirstMoves(a) ==
  IF ~a.ok THEN <<>>
  ELSE SubSeq(a.moves, 1,
         Cardinality({ k \in 1..Len(a.moves) :
                         \A j \in 1..k : a.moves[j] # NoSan }))

\* line 97: get_popular_openings sleeps at the end of its try block, after
\* the answer has been read without an exception
SleptAfterFirstMoves(a) == a.ok /\ ReadFirstMoves(a) = a.moves

\* line 127: get_opening_continuations sleeps in its try block, right after
\* the call has returned
SleptAfterContinuations(a) == a.ok

\* the call and whether the rate-limit delay elapsed after it
Called(d, play, a, slept) ==
  [d EXCEPT !.calls = Append(@, [play |-> play, slept |-> slept] @@ a)]

\* lines 164-165: the call starts
DiscStart(n) ==
  /\ disc.pc = "idle"
  /\ disc' = [IdleDisc EXCEPT !.pc = "first", !.max_openings = n]
  /\ UNCHANGED <<openings, stats, tiers, logs, save, prior, apply, tiersBefore, resp, peer>>

\* line 168 and 58-102: get_popular_openings(max_moves=8); a failure gives [].
\* answers is the set of answers the provider may give to the call
FirstMovesStep(answers) ==
  /\ disc.pc = "first"
  /\ \E a \in answers :
       LET d == [Called(disc, <<>>, a, SleptAfterFirstMoves(a)) EXCEPT
                   !.first_moves = Limit(ReadFirstMoves(a), TopFirstMoves)]
       IN disc' = IF d.first_moves = <<>> THEN Finish(d)
                  ELSE [d EXCEPT !.pc = "branch", !.fi = 1]
  /\ UNCHANGED <<openings, stats, tiers, logs, save, prior, apply, tiersBefore, resp, peer>>

DiscFirstMoves == FirstMovesStep(FirstMovesAnswers)

\* lines 171-179: get_opening_continuations([first_move]); a failure gives {}
BranchStep(answers) ==
  /\ disc.pc = "branch"
  /\ \E a \in answers :
       LET d == Called(disc, <<disc.first_moves[disc.fi]>>, a,
                       SleptAfterContinuations(a))
           conts == Limit(a.moves, TopContinuations)
       IN disc' = IF ~a.ok THEN SkipBranch(d)
                  ELSE IF conts = <<>>
                    THEN IF Full(d)
                         THEN Finish(d) ELSE NextBranch(d)
                  ELSE [d EXCEPT !.pc = "line", !.continuations = conts, !.ci = 1]
  /\ UNCHANGED <<openings, stats, tiers, logs, save, prior, apply, tiersBefore, resp, peer>>

DiscBranch == BranchStep(BranchAnswers)

\* line 180: continuation['san'] is read outside any try block, the
\* KeyError leaves discover_openings_tree
MissingSan(d) == [d EXCEPT !.pc = "raised"]

\* lines 180-219: one two-move line
LineStep(answers) ==
  /\ disc.pc = "line"
  /\ IF disc.continuations[disc.ci] = NoSan
     THEN disc' = MissingSan(disc)
     ELSE \E a \in answers :
       LET moves == <<disc.first_moves[disc.fi], disc.continuations[disc.ci]>>
           d == Called(disc, moves, a, SleptAfterContinuations(a))
       IN disc' =
            IF ~a.ok THEN SkipLine(d)
            ELSE IF BelowFloor(TotalGames(a)) THEN NextLine(d)
            ELSE LET e == [d EXCEPT !.discovered = Append(@, OpeningData(moves, a, Len(d.calls)))]
                 IN IF Full(e) THEN Finish(e)
                    ELSE NextLine(e)
  /\ UNCHANGED <<openings, stats, tiers, logs, save, prior, apply, tiersBefore, resp, peer>>

DiscLine == LineStep(LineAnswers)

\* the caller has the list, or the exception
DiscReturn ==
  /\ disc.pc \in {"done", "raised"}
  /\ disc' = IdleDisc
  /\ UNCHANGED <<openings, stats, tiers, logs, save, prior, apply, tiersBefore, resp, peer>>

InitDisc ==
  /\ InitStore
  /\ save = IdleSave
  /\ prior = [openings |-> {}, stats |-> {}]
  /\ apply = IdleApply
  /\ tiersBefore = {}
  /\ peer = IdleApply
  /\ resp = NoResp
  /\ disc = IdleDisc

NextDisc ==
  \/ \E n \in 0..MaxOpenings : DiscStart(n)
  \/ DiscFirstMoves
  \/ DiscBranch
  \/ DiscLine
  \/ DiscReturn

SpecDisc == InitDisc /\ [][NextDisc]_vars

(***************************************************************************)
(* The two scoring formulas as functions of the provider's counts          *)
(***************************************************************************)
\* counts the provider can report for a line
ScoreCounts == { 50 * k : k \in 0..MaxCountSteps }

\* collect_openings.py 187-197: the score of a line that passes the floor
ScoreLine(white, black, draws) ==
  /\ resp = NoResp
  /\ ~BelowFloor(white + black + draws)
  /\ resp' = [op |-> "score", white |-> white, black |-> black, draws |-> draws,
              total_games |-> white + black + draws,
              score_num |-> PerformanceScore(white, black, draws)]
  /\ UNCHANGED <<openings, stats, tiers, logs, save, prior, apply, tiersBefore, disc, peer>>

MinGamesSimple == 100   \* simple_collector.py 92

\* simple_collector.py 95-101 with a win of Black counted as -1
SimplePerformanceScoreSigned(white, black, draws) ==
  100 * white - 100 * black + 50 * draws

\* simple_collector.py 95-101: with t = white + black + draws the score is
\* (white/t + draws/t * 0.5) * 100; the operator gives the numerator of that
\* fraction over t
SimplePerformanceScore(white, black, draws) == 100 * white + 50 * draws

\* simple_collector.py 90-101: the score explore_opening_line gives a line
SimpleScoreLine(white, black, draws) ==
  /\ resp = NoResp
  /\ white + black + draws >= MinGamesSimple
  /\ resp' = [op |-> "simple_score", white |-> white, black |-> black,
              draws |-> draws, total_games |-> white + black + draws,
              score_num |-> SimplePerformanceScore(white, black, draws)]
  /\ UNCHANGED <<openings, stats, tiers, logs, save, prior, apply, tiersBefore, disc, peer>>

NextScore ==
  \/ \E white, black, draws \in ScoreCounts : ScoreLine(white, black, draws)
  \/ \E white, black, draws \in ScoreCounts : SimpleScoreLine(white, black, draws)
  \/ QueryReturn

SpecScore == InitDisc /\ [][NextScore]_vars

(***************************************************************************)
(* Specification of the persistence layer                                  *)
(***************************************************************************)
InitSave ==
  /\ InitStore
  /\ save = IdleSave
  /\ prior = [openings |-> {}, stats |-> {}]
  /\ apply = IdleApply
  /\ tiersBefore = {}
  /\ peer = IdleApply
  /\ resp = NoResp
  /\ disc = IdleDisc

NextSave ==
  \/ \E raw \in Batches : SaveBegin(raw)
  \/ SaveCommitLog
  \/ SaveDeleteStats
  \/ SaveDeleteOpenings
  \/ SaveCommitDelete
  \/ SaveFlushOpenings
  \/ SaveLink
  \/ SaveCommitFinal
  \/ SaveFault
  \/ SaveHandler
  \/ SaveReturn

SpecSave == InitSave /\ [][NextSave]_vars

(***************************************************************************)
(* C1: replace_all is atomic: when save_to_database returns after a        *)
(* failure at any step of the run, the committed Opening and               *)
(* OpeningStatistic rows are exactly those committed when the run started. *)
(***************************************************************************)
C1_AtomicReplace ==
  (save.pc = "returned" /\ save.fault # "none")
    => (openings = prior.openings /\ stats = prior.stats)

(***************************************************************************)
(* C2: whenever save_to_database returns to its caller, the UpdateLog row  *)
(* of that run is persisted with status success or error.                  *)
(***************************************************************************)
C2_LogTerminal ==
  save.pc = "returned"
    => /\ save.logId \in 1..Len(logs)
       /\ logs[save.logId].status \in {"success", "error"}

(***************************************************************************)
(* C3: after any sequence of apply_updates calls the store holds at most   *)
(* one TierListEntry per key (opening_id, rating_range, time_control,      *)
(* user_id), and after a successful call the row of every key the call     *)
(* wrote carries the rank and position of the last update for that key.    *)
(***************************************************************************)
SameKey(e1, e2) ==
  /\ e1.opening_id = e2.opening_id
  /\ e1.rating_range = e2.rating_range
  /\ e1.time_control = e2.time_control
  /\ e1.user_id = e2.user_id

LastUpdateFor(updates, oid) ==
  updates[MaxOf({ k \in 1..Len(updates) : updates[k].opening_id = oid })]

C3_UpsertOneRowPerKey ==
  /\ \A e1, e2 \in tiers : SameKey(e1, e2) => e1 = e2
  /\ (apply.pc = "returned" /\ apply.ret = "ok") =>
       \A k \in 1..Len(apply.updates) :
         LET oid == apply.updates[k].opening_id
             last == LastUpdateFor(apply.updates, oid)
         IN \E e \in tiers :
              /\ e.opening_id = oid
              /\ e.rating_range = apply.ctx.rating_range
              /\ e.time_control = apply.ctx.time_control
              /\ e.user_id = apply.ctx.user_id
              /\ e.tier_rank = last.tier_rank
              /\ e.tier_position = last.tier_position

(***************************************************************************)
(* C7: if anything fails inside one apply_updates call, every              *)
(* TierListEntry row is as it was before the call (no row added, no field  *)
(* changed) and the caller receives an error.                              *)
(***************************************************************************)
C7_BatchRollback ==
  (apply.pc = "returned" /\ apply.fault)
    => (tiers = tiersBefore /\ apply.ret = "error")

\* a failed call that had already modified a stored row and added a new one
C7_Witness ==
  /\ apply.pc = "returned"
  /\ apply.fault
  /\ apply.dirty # {}
  /\ apply.new # <<>>
  /\ \E d \in apply.dirty : \E e \in tiers :
       e.id = d.id /\ e.tier_rank # d.tier_rank

(***************************************************************************)
(* C8: every entry returned by get_tier_list(rating_range, time_control,   *)
(* user_id) has null tier fields when no TierListEntry has the key (its    *)
(* opening, rating_range, time_control, user_id), and the stored rank and  *)
(* position of an entry with exactly that key when one exists.             *)
(***************************************************************************)
C8_TierFieldsExact ==
  resp.op = "get_tier_list" =>
    \A k \in 1..Len(resp.result) :
      LET r == resp.result[k]
          m == { e \in tiers : /\ e.opening_id = r.opening
                               /\ e.rating_range = resp.ctx.rating_range
                               /\ e.time_control = resp.ctx.time_control
                               /\ e.user_id = resp.ctx.user_id }
      IN /\ m = {} => (r.tier_rank = Null /\ r.tier_position = Null)
         /\ m # {} => \E e \in m : /\ r.tier_rank = Some(e.tier_rank)
                                   /\ r.tier_position = Some(e.tier_position)

\* a response with one opening that carries its stored tier and another that
\* has none although an entry for it is stored under another user
C8_Witness ==
  /\ resp.op = "get_tier_list"
  /\ \E k \in 1..Len(resp.result) : resp.result[k].tier_rank # Null
  /\ \E k \in 1..Len(resp.result) :
       /\ resp.result[k].tier_rank = Null
       /\ \E e \in tiers : /\ e.opening_id = resp.result[k].opening
                           /\ e.user_id # resp.ctx.user_id

(***************************************************************************)
(* C4: for every active opening that has a statistic row matching the      *)
(* requested rating_range and time_control, get_tier_list returns that     *)
(* opening paired with a row of maximum collected_at among its rows that   *)
(* match the context filters.                                              *)
(***************************************************************************)
MatchesContext(s, ctx) ==
  /\ (ctx.rating_range # "all" => s.rating_range = ctx.rating_range)
  /\ (ctx.time_control # "all" => s.time_control = ctx.time_control)

C10_UnknownFieldFallsBack ==
  /\ (resp.op = "get_openings" /\ resp.query.sort_by \notin StatisticColumns) =>
       /\ resp.status = "ok"
       /\ \E r \in OpeningsResponses([resp.query EXCEPT !.sort_by = "performance_score"]) :
            r.result = resp.result
  /\ (resp.op = "get_top_performers" /\ resp.metric \notin StatisticColumns) =>
       /\ resp.status = "ok"
       /\ \E r \in TopPerformersResponses("performance_score", resp.limit) :
            \A k \in 1..Len(r.result) :
              /\ Len(resp.result) = Len(r.result)
              /\ resp.result[k].opening = r.result[k].opening
              /\ resp.result[k].statistics = r.result[k].statistics

(***************************************************************************)
(* C5: for every target count N >= 0 and every sequence of provider        *)
(* answers, discover_openings_tree returns at most N lines.                *)
(***************************************************************************)
C5_AtMostN ==
  disc.pc = "done" => Len(disc.result) <= disc.max_openings

\* a run that returned N >= 1 lines and left a listed continuation unexplored
C5_Witness ==
  /\ disc.pc = "done"
  /\ disc.max_openings >= 1
  /\ Len(disc.result) = disc.max_openings
  /\ disc.ci < Len(disc.continuations)

(***************************************************************************)
(* C6: every line returned by discover_openings_tree has total_games >=    *)
(* 100, total_games being the sum of the white, black and draw counts the  *)
(* provider reported for that line; a line reported below the floor is     *)
(* not in the result.                                                      *)
(***************************************************************************)
C6_FloorRespected ==
  disc.pc = "done" =>
    /\ \A k \in 1..Len(disc.result) :
         /\ disc.result[k].total_games >= 100
         /\ \E j \in 1..Len(disc.calls) :
              /\ disc.calls[j].play = disc.result[k].moves_sequence
              /\ disc.calls[j].ok
              /\ disc.calls[j].white + disc.calls[j].black + disc.calls[j].draws
                   = disc.result[k].total_games
    /\ \A j \in 1..Len(disc.calls) :
         (disc.calls[j].white + disc.calls[j].black + disc.calls[j].draws < 100)
           => \A k \in 1..Len(disc.result) :
                disc.result[k].moves_sequence # disc.calls[j].play

\* a run in which one line was reported with 99 games and the result holds a
\* line of exactly 100 games
C6_Witness ==
  /\ disc.pc = "done"
  /\ \E j \in 1..Len(disc.calls) :
       /\ disc.calls[j].ok
       /\ disc.calls[j].white + disc.calls[j].black + disc.calls[j].draws = 99
  /\ \E k \in 1..Len(disc.result) : disc.result[k].total_games = 100

(***************************************************************************)
(* C9: when the provider call of one branch fails, discover_openings_tree  *)
(* contributes no line for that branch, does not repeat the call, and      *)
(* goes on with the remaining branches: unless max_openings lines were     *)
(* gathered, every first move and every listed continuation is looked up,  *)
(* and every qualifying line found is returned.                            *)
(***************************************************************************)
C9_FailedBranchSkipped ==
  /\ \A i, j \in 1..Len(disc.calls) :
       i # j => disc.calls[i].play # disc.calls[j].play
  /\ disc.pc = "done" =>
       /\ \A k \in 1..Len(disc.result) :
            \A j \in 1..Len(disc.calls) :
              (\/ disc.calls[j].play = disc.result[k].moves_sequence
               \/ disc.calls[j].play = <<disc.result[k].moves_sequence[1]>>)
                => disc.calls[j].ok
       /\ disc.max_openings >= 1 =>
            \A j \in 1..Len(disc.calls) :
              (/\ disc.calls[j].ok
               /\ Len(disc.calls[j].play) = 2
               /\ disc.calls[j].white + disc.calls[j].black + disc.calls[j].draws >= 100)
                => \E k \in 1..Len(disc.result) :
                     disc.result[k].moves_sequence = disc.calls[j].play
       /\ Len(disc.discovered) < disc.max_openings =>
            /\ \A f \in 1..Len(disc.first_moves) :
                 \E j \in 1..Len(disc.calls) :
                   disc.calls[j].play = <<disc.first_moves[f]>>
            /\ \A j \in 1..Len(disc.calls) :
                 (disc.calls[j].ok /\ Len(disc.calls[j].play) = 1) =>
                   \A m \in 1..Len(disc.calls[j].moves) :
                     m <= 5 =>
                       \E j2 \in 1..Len(disc.calls) :
                         disc.calls[j2].play =
                           Append(disc.calls[j].play, disc.calls[j].moves[m])

\* a run in which a first move's lookup failed and a line's lookup failed,
\* and a line looked up after both is in the result
C9_Witness ==
  /\ disc.pc = "done"
  /\ \E j1, j2, j3 \in 1..Len(disc.calls) :
       /\ j1 < j3
       /\ j2 < j3
       /\ ~disc.calls[j1].ok /\ Len(disc.calls[j1].play) = 1
       /\ ~disc.calls[j2].ok /\ Len(disc.calls[j2].play) = 2
       /\ disc.calls[j3].ok
       /\ \E k \in 1..Len(disc.result) :
            disc.result[k].moves_sequence = disc.calls[j3].play

(***************************************************************************)
(* C11: an opening whose is_active flag is false is in no answer of        *)
(* list_openings, get_tier_list or top_performers, and the summary's       *)
(* total_openings counts the active openings only.                         *)
(***************************************************************************)
InactiveIds == { o.id : o \in { x \in openings : ~x.is_active } }

SatisfiesFilters(row, q) ==
  /\ (q.rating_range # NoFilter => row.rating_range = q.rating_range)
  /\ (q.time_control # NoFilter => row.time_control = q.time_control)
  /\ row.total_games >= q.min_games

OpeningIds == 1..(MaxBatch + 1)

NextServe ==
  \/ (resp = NoResp /\ NextSave)
  \/ \E opening_id \in OpeningIds : GetOpening(opening_id)
  \/ GetSummary
  \/ QueryReturn

SpecServe == InitSave /\ [][NextServe]_vars

(***************************************************************************)
(* C13: get_opening(id) answers NotFound exactly when no Opening row with  *)
(* that id is in the store, and otherwise returns the row with that id; an *)
(* id that was in the store before a replace_all and is not in the new     *)
(* snapshot is NotFound afterwards.                                        *)
(***************************************************************************)
C13_NotFoundIffAbsent ==
  resp.op = "get_opening" =>
    /\ resp.status = "not_found" <=> ~(\E o \in openings : o.id = resp.opening_id)
    /\ resp.status # "not_found" =>
         /\ resp.status = "ok"
         /\ \E o \in openings : o.id = resp.opening_id /\ resp.opening = Some(o)

\* after a successful replace_all, NotFound for an id the prior snapshot had
C13_Witness ==
  /\ resp.op = "get_opening"
  /\ resp.status = "not_found"
  /\ save.pc = "idle"
  /\ openings # {}
  /\ Len(logs) > 0
  /\ logs[Len(logs)].status = "success"
  /\ \E o \in prior.openings : o.id = resp.opening_id

(***************************************************************************)
(* C14: the list discover_openings_tree returns is ordered by              *)
(* (performance_score, total_games), non-increasing: of two neighbours the *)
(* earlier has the higher score, or the same score and at least as many    *)
(* games.                                                                  *)
(***************************************************************************)
C14_ResultOrdered ==
  disc.pc = "done" =>
    \A k \in 1..(Len(disc.result) - 1) :
      LET x == disc.result[k]
          y == disc.result[k + 1]
      IN \/ x.score_num * y.total_games > y.score_num * x.total_games
         \/ /\ x.score_num * y.total_games = y.score_num * x.total_games
            /\ x.total_games >= y.total_games

\* a result whose first line was gathered after its second one: the two have
\* the same score and the first has more games
C14_Witness ==
  /\ disc.pc = "done"
  /\ Len(disc.result) >= 2
  /\ disc.result[1].collected_at > disc.result[2].collected_at
  /\ disc.result[1].score_num * disc.result[2].total_games
       = disc.result[2].score_num * disc.result[1].total_games
  /\ disc.result[1].total_games > disc.result[2].total_games

(***************************************************************************)
(* C15: a query answered while a replace_all is running on a non-empty     *)
(* store sees the complete prior snapshot or the complete new snapshot,    *)
(* never an empty or partly written store. Stated on the summary's counts, *)
(* for runs in which no statement has failed and whose prior snapshot has  *)
(* a statistic row for every opening.                                      *)
(***************************************************************************)
C15_QuerySeesWholeSnapshot ==
  (/\ resp.op = "summary"
   /\ save.pc \notin {"idle", "returned"}
   /\ save.fault = "none"
   /\ prior.openings # {}
   /\ Cardinality(prior.stats) = Cardinality(prior.openings))
    => \/ /\ resp.total_openings = Cardinality(prior.openings)
          /\ resp.total_statistics = Cardinality(prior.stats)
       \/ /\ resp.total_openings = Len(save.objs.openings)
          /\ resp.total_statistics = Len(save.objs.statistics)

(***************************************************************************)
(* C16: the summary's last_updated is the greatest completed_at among the  *)
(* update-log rows with status success, and null when there is none; rows  *)
(* with status error or in_progress do not count.                          *)
(***************************************************************************)
C16_LastUpdatedIsLatestSuccess ==
  resp.op = "summary" =>
    LET done == { k \in 1..Len(logs) : logs[k].status = "success" }
    IN IF done = {}
       THEN resp.last_updated = Null
       ELSE \E k \in done :
              /\ resp.last_updated = Some(logs[k].completed_at)
              /\ \A j \in done : logs[j].completed_at <= logs[k].completed_at

\* a summary asked when a run that succeeded was followed by a run that
\* ended in error at a later time
C16_Witness ==
  /\ resp.op = "summary"
  /\ resp.last_updated # Null
  /\ \E k, j \in 1..Len(logs) :
       /\ logs[k].status = "success"
       /\ logs[j].status = "error"
       /\ logs[j].completed_at > logs[k].completed_at
       /\ resp.last_updated = Some(logs[k].completed_at)

(***************************************************************************)
(* C18: the score discovery gives a line with counts (white, black, draws) *)
(* and total = white + black + draws is                                    *)
(* (0.4*white + 0.4*(total - black) + 0.2*draws) * 100 / total, a function *)
(* of the counts alone; for 550, 400, 50 it is 47.0. The score is the      *)
(* fraction score_num / total_games, so the equation is stated multiplied  *)
(* by 10 * total.                                                          *)
(***************************************************************************)
C18_PrimaryFormula ==
  resp.op = "score" =>
    /\ resp.total_games = resp.white + resp.black + resp.draws
    /\ resp.total_games > 0
    /\ 10 * resp.score_num =
         (4 * resp.white + 4 * (resp.total_games - resp.black) + 2 * resp.draws) * 100
    /\ (resp.white = 550 /\ resp.black = 400 /\ resp.draws = 50)
         => resp.score_num = 47 * resp.total_games

\* the line of the example has been scored
C18_Witness ==
  /\ resp.op = "score"
  /\ resp.white = 550 /\ resp.black = 400 /\ resp.draws = 50
  /\ resp.score_num = 47000
  /\ resp.total_games = 1000

(***************************************************************************)
(* C19: the performance_score of a line scored by discovery (primary       *)
(* formula) or by the lightweight collector (alternate formula) is at      *)
(* least 0 and at most 100, whatever the non-negative counts.              *)
(***************************************************************************)
C19_ScoreInRange ==
  resp.op \in {"score", "simple_score"} =>
    /\ 0 <= resp.score_num
    /\ resp.score_num <= 100 * resp.total_games

\* the upper end is met: a line White always wins scores 100 with the
\* alternate formula
C19_Witness ==
  /\ resp.op = "simple_score"
  /\ resp.total_games > 0
  /\ resp.white = resp.total_games
  /\ resp.score_num = 100 * resp.total_games

(***************************************************************************)
(* run_update: AutomatedUpdateSystem.run_full_update and                   *)
(* run_incremental_update. The store holds a snapshot loaded by earlier    *)
(* runs; the update is the last run of the behaviour.                      *)
(***************************************************************************)
UpdateMaxOpenings == 50   \* update_data.py 68

\* save_openings_data and load_json_data: a gathered line as the file
\* carries it; the score is kept in whole points
SnapshotLine(x) ==
  [moves_sequence |-> x.moves_sequence, opening_name |-> x.opening_name,
   total_games |-> x.total_games,
   performance_score |-> x.score_num \div x.total_games,
   collected_at |-> x.collected_at]

SnapshotFile(result) == [k \in 1..Len(result) |-> SnapshotLine(result[k])]

\* the log rows the earlier runs wrote
LoadedLogs ==
  [k \in 1..(MaxRuns - 1) |->
     [status |-> "success", openings_processed |-> Len(LoadedBatch),
      statistics_updated |-> Len(LoadedBatch), error |-> "none",
      started_at |-> 2 * k - 1, completed_at |-> 2 * k]]

\* update_data.py 56-68 and 95-101: either mode starts the discovery with
\* max_openings = 50
UpdateStart(mode) ==
  /\ resp = NoResp
  /\ save.pc = "idle"
  /\ Len(logs) < MaxRuns
  /\ DiscStart(UpdateMaxOpenings)

\* the provider's list of first moves during the update
UpdateFirstMoves ==
  /\ DiscFirstMoves
  /\ Len(disc'.first_moves) <= MaxUpdateFirst

\* the test of line 70 taken as never true
NoDataNever(openings_data) == FALSE

\* update_data.py 70: not openings_data
NoData(openings_data) == openings_data = <<>>

\* update_data.py 70-72: if not openings_data: return False
UpdateNoData ==
  /\ disc.pc = "done"
  /\ save.pc = "idle"
  /\ NoData(disc.result)
  /\ disc' = IdleDisc
  /\ resp' = [op |-> "run_update", result |-> FALSE]
  /\ UNCHANGED <<openings, stats, tiers, logs, save, prior, apply, tiersBefore, peer>>

\* update_data.py 91-93: an exception of the discovery is caught and logged
UpdateFailed ==
  /\ disc.pc = "raised"
  /\ save.pc = "idle"
  /\ disc' = IdleDisc
  /\ resp' = [op |-> "run_update", result |-> FALSE]
  /\ UNCHANGED <<openings, stats, tiers, logs, save, prior, apply, tiersBefore, peer>>

\* update_data.py 74-80: the list is written to the temporary file and
\* process_file loads it
UpdateLoad ==
  /\ disc.pc = "done"
  /\ ~NoData(disc.result)
  /\ SaveBegin(SnapshotFile(disc.result))

\* update_data.py 82-93: the result of process_file is the result of the run
UpdateReturn ==
  /\ disc.pc = "done"
  /\ save.pc = "returned"
  /\ save' = IdleSave
  /\ disc' = IdleDisc
  /\ resp' = [op |-> "run_update", result |-> (save.ret = "true")]
  /\ UNCHANGED <<openings, stats, tiers, logs, prior, apply, tiersBefore, peer>>

InitUpdate ==
  /\ openings = LoadedOpenings
  /\ stats = LoadedStats
  /\ tiers = {}
  /\ logs = LoadedLogs
  /\ save = IdleSave
  /\ prior = [openings |-> {}, stats |-> {}]
  /\ apply = IdleApply
  /\ tiersBefore = {}
  /\ peer = IdleApply
  /\ resp = NoResp
  /\ disc = IdleDisc

NextUpdate ==
  \/ \E mode \in {"full", "incremental"} : UpdateStart(mode)
  \/ UpdateFirstMoves
  \/ DiscBranch
  \/ DiscLine
  \/ UpdateNoData
  \/ UpdateFailed
  \/ UpdateLoad
  \/ SaveCommitLog
  \/ SaveDeleteStats
  \/ SaveDeleteOpenings
  \/ SaveCommitDelete
  \/ SaveFlushOpenings
  \/ SaveLink
  \/ SaveCommitFinal
  \/ SaveFault
  \/ SaveHandler
  \/ UpdateReturn
  \/ QueryReturn

SpecUpdate == InitUpdate /\ [][NextUpdate]_vars

(***************************************************************************)
(* C20: after a run_update that has loaded the discovery's output, no      *)
(* Opening row has an empty name, also when the provider reported no       *)
(* opening for a line.                                                     *)
(***************************************************************************)
C20_NoEmptyName ==
  (resp.op = "run_update" /\ resp.result) =>
    \A o \in openings : o.name # ""

(***************************************************************************)
(* C21: after a save_to_database run that returns success every Opening    *)
(* row has exactly one OpeningStatistic row and every OpeningStatistic row *)
(* refers to an Opening row; the statistic of the i-th input line is the   *)
(* one linked to the opening of the i-th input line.                       *)
(***************************************************************************)
C21_OneStatisticPerOpening ==
  (save.pc = "returned" /\ save.ret = "true") =>
    /\ \A o \in openings :
         Cardinality({ s \in stats : s.opening_id = o.id }) = 1
    /\ \A s \in stats : \E o \in openings : o.id = s.opening_id
    /\ \A i \in 1..Len(save.objs.openings) :
         \E o \in openings, s \in stats :
           /\ s.opening_id = o.id
           /\ o.moves_sequence = save.objs.openings[i].moves_sequence
           /\ o.popularity_rank = i
           /\ s.total_games = save.objs.statistics[i].total_games
           /\ s.collected_at = save.objs.statistics[i].collected_at

\* a successful run that replaced a non-empty store by two openings
C21_Witness ==
  /\ save.pc = "returned"
  /\ save.ret = "true"
  /\ prior.openings # {}
  /\ Cardinality(openings) = 2
  /\ Cardinality(stats) = 2

(***************************************************************************)
(* C22: in a discovery run the rate-limit delay elapses after every        *)
(* provider call before the next call is issued, also after a call that    *)
(* failed.                                                                 *)
(***************************************************************************)
C22_DelayBetweenCalls ==
  \A j \in 1..(Len(disc.calls) - 1) : disc.calls[j].slept

(***************************************************************************)
(* C23: discover_openings_tree raises no exception to its caller, whatever *)
(* the provider does at a call: a transport failure, or an answer whose    *)
(* entries lack a member such as san.                                      *)
(***************************************************************************)
C23_NeverRaises == disc.pc # "raised"

(***************************************************************************)
(* C24: when two update_tier_list calls for the same key (opening_id,      *)
(* rating_range, time_control, user_id) run at the same time and the store *)
(* has no entry for the key, then once both have completed the store       *)
(* holds exactly one TierListEntry row for that key.                       *)
(***************************************************************************)
C24_ConcurrentUpsertOneRow ==
  (/\ apply.pc = "returned" /\ apply.ret = "ok"
   /\ peer.pc = "returned" /\ peer.ret = "ok"
   /\ Len(apply.updates) = 1 /\ Len(peer.updates) = 1
   /\ SameKey(NewEntry(apply.updates[1], apply.ctx),
              NewEntry(peer.updates[1], peer.ctx))
   /\ ~(\E e \in tiersBefore : SameKey(e, NewEntry(apply.updates[1], apply.ctx))))
    => Cardinality({ e \in tiers :
                       SameKey(e, NewEntry(apply.updates[1], apply.ctx)) }) = 1

(***************************************************************************)
(* C25: an update-log row reads success only together with the complete    *)
(* new snapshot: while the row of the current run reads success, the store *)
(* holds exactly the openings and statistics of the run's input, the row's *)
(* openings_processed and statistics_updated are their numbers, and the    *)
(* store is not empty.                                                     *)
(***************************************************************************)
StoreIsInputOf(s) ==
  /\ Cardinality(openings) = Len(s.objs.openings)
  /\ Cardinality(stats) = Len(s.objs.statistics)
  /\ \A i \in 1..Len(s.objs.openings) :
       \E o \in openings, r \in stats :
         /\ r.opening_id = o.id
         /\ o.name = s.objs.openings[i].name
         /\ o.moves_sequence = s.objs.openings[i].moves_sequence
         /\ o.popularity_rank = i
         /\ r.total_games = s.objs.statistics[i].total_games
         /\ r.performance_score = s.objs.statistics[i].performance_score

C25_SuccessOnlyWithSnapshot ==
  (/\ save.pc # "idle"
   /\ save.logId \in 1..Len(logs)
   /\ logs[save.logId].status = "success")
    => /\ StoreIsInputOf(save)
       /\ logs[save.logId].openings_processed = Cardinality(openings)
       /\ logs[save.logId].statistics_updated = Cardinality(stats)
       /\ openings # {}
       /\ stats # {}

(***************************************************************************)
(* Specification of the overlay across a refresh: users rank openings of   *)
(* the loaded snapshot, the loader then replaces the snapshot, and the     *)
(* tier list is read; requests and loader statements do not overlap        *)
(***************************************************************************)
\* update_tier_list on the loaded snapshot, before the loader's first run
RankLoaded(u, ctx) ==
  /\ logs = <<>>
  /\ save.pc = "idle"
  /\ ApplyBegin(<<u>>, ctx)

NextRefresh ==
  \/ \E u \in TierUpdates, ctx \in WorkerContexts : RankLoaded(u, ctx)
  \/ ApplyStep
  \/ ApplyCommit
  \/ ApplyReturn
  \/ (apply.pc = "idle" /\ resp = NoResp /\ NextSave)
  \/ \E ctx \in WorkerContexts : GetTierList(ctx)
  \/ QueryReturn

SpecRefresh == InitTier /\ [][NextRefresh]_vars

\* the move sequence of the loaded opening a tier entry was stored for
RankedSequence(e) ==
  (CHOOSE o \in LoadedOpenings : o.id = e.opening_id).moves_sequence

\* the tier fields of the entries stored, in context ctx, for the sequence m
TierFieldsOfSequence(m, ctx) ==
  LET es == { e \in tiers : /\ e.rating_range = ctx.rating_range
                            /\ e.time_control = ctx.time_control
                            /\ e.user_id = ctx.user_id
                            /\ RankedSequence(e) = m }
  IN IF es = {}
     THEN { [tier_rank |-> Null, tier_position |-> Null] }
     ELSE { [tier_rank |-> Some(e.tier_rank), tier_position |-> Some(e.tier_position)] :
              e \in es }

(***************************************************************************)
(* C26: after a successful replace_all whose snapshot holds the move       *)
(* sequence of every stored entry, get_tier_list attaches to each opening  *)
(* the rank and position of the entries stored for its move sequence, and  *)
(* those of no entry stored for another sequence.                          *)
(***************************************************************************)
C26_EntryFollowsSequence ==
  (/\ resp # NoResp
   /\ resp.op = "get_tier_list"
   /\ save.pc = "idle"
   /\ Len(logs) > 0
   /\ logs[Len(logs)].status = "success"
   /\ \A e \in tiers : \E o \in openings : o.moves_sequence = RankedSequence(e))
    => \A k \in 1..Len(resp.result) :
         LET o == CHOOSE o \in openings : o.id = resp.result[k].opening
         IN [tier_rank |-> resp.result[k].tier_rank,
             tier_position |-> resp.result[k].tier_position]
              \in TierFieldsOfSequence(o.moves_sequence, resp.ctx)

(***************************************************************************)
(* C27: when the discovery has returned no lines, the only step of         *)
(* run_update is the return of failure: the persistence layer is not       *)
(* started and the Opening, OpeningStatistic, TierListEntry and UpdateLog  *)
(* rows are unchanged.                                                     *)
(***************************************************************************)
C27_NoLinesNoWrite ==
  [][(disc.pc = "done" /\ disc.result = <<>> /\ save.pc = "idle")
       => /\ resp'.op = "run_update"
          /\ ~resp'.result
          /\ save' = IdleSave
          /\ UNCHANGED <<openings, stats, tiers, logs>>]_vars

\* the discovery has returned no lines after the provider reported a line
\* below the floor; the loaded snapshot is in the store and the loader idle
C27_Witness ==
  /\ disc.pc = "done"
  /\ disc.result = <<>>
  /\ \E j \in 1..Len(disc.calls) :
       /\ disc.calls[j].ok
       /\ Len(disc.calls[j].play) = 2
       /\ BelowFloor(TotalGames(disc.calls[j]))
  /\ save.pc = "idle"
  /\ openings = LoadedOpenings
  /\ stats = LoadedStats
  /\ logs = LoadedLogs

(***************************************************************************)
(* C28: for N >= 1, once N qualifying lines have been gathered             *)
(* discover_openings_tree makes no further provider call, and the list it  *)
(* returns holds exactly the qualifying lines looked up, which are the     *)
(* first N in traversal order.                                             *)
(***************************************************************************)
\* the calls, in order, that looked up a two-move line of at least MinGames games
QualifyingCalls ==
  { j \in 1..Len(disc.calls) :
      /\ disc.calls[j].ok
      /\ Len(disc.calls[j].play) = 2
      /\ ~BelowFloor(TotalGames(disc.calls[j])) }

C28_StopsAtN ==
  (disc.pc # "idle" /\ disc.max_openings >= 1) =>
    /\ Cardinality(QualifyingCalls) <= disc.max_openings
    /\ Cardinality(QualifyingCalls) = disc.max_openings
         => /\ Len(disc.calls) \in QualifyingCalls
            /\ disc.pc = "done"
    /\ disc.pc = "done" =>
         /\ Len(disc.result) = Cardinality(QualifyingCalls)
         /\ \A j \in QualifyingCalls :
              \E k \in 1..Len(disc.result) :
                disc.result[k].moves_sequence = disc.calls[j].play

\* a run for N >= 1 that returned N lines, left a listed first move without
\* lookup and returned the lines in another order than it had found them
C28_Witness ==
  /\ disc.pc = "done"
  /\ disc.max_openings >= 1
  /\ Len(disc.result) = disc.max_openings
  /\ disc.fi < Len(disc.first_moves)
  /\ \E j1, j2 \in QualifyingCalls, k1, k2 \in 1..Len(disc.result) :
       /\ j1 < j2
       /\ k2 < k1
       /\ disc.result[k1].moves_sequence = disc.calls[j1].play
       /\ disc.result[k2].moves_sequence = disc.calls[j2].play

ManyFirstSans == <<"e4", "d4", "Nf3", "c4", "g3", "b3", "f4", "Nc3", "b4">>
ManyContSans == <<"e5", "c5", "e6", "c6", "d6", "d5">>

FailedAnswer ==
  [ok |-> FALSE, white |-> 0, black |-> 0, draws |-> 0, moves |-> <<>>,
   opening |-> Null]

DeepFirstAnswers ==
  { FailedAnswer,
    [ok |-> TRUE, white |-> 0, black |-> 0, draws |-> 0,
     moves |-> ManyFirstSans, opening |-> Null] }

DeepBranchAnswers ==
  { FailedAnswer,
    [ok |-> TRUE, white |-> 0, black |-> 0, draws |-> 0,
     moves |-> ManyContSans, opening |-> Some("Kings Pawn")] }

DeepLineAnswers ==
  { [ok |-> TRUE, white |-> 550, black |-> 400, draws |-> 50, moves |-> <<>>,
     opening |-> Some("Sicilian Defense")] }

DeepFirstMoves == FirstMovesStep(DeepFirstAnswers)
DeepBranch == BranchStep(DeepBranchAnswers)
DeepLine == LineStep(DeepLineAnswers)

NextDeep ==
  \/ \E n \in (0..MaxOpenings) \cup {UpdateMaxOpenings} : DiscStart(n)
  \/ DeepFirstMoves
  \/ DeepBranch
  \/ DeepLine
  \/ DiscReturn

SpecDeep == InitDisc /\ [][NextDeep]_vars

(***************************************************************************)
(* C30: a run of discover_openings_tree makes at most 49 provider calls,   *)
(* 1 for the first moves, at most 8 for continuations and at most 40 for   *)
(* lines, and returns at most 40 lines, each of exactly two moves.         *)
(***************************************************************************)
C30_BoundedTraversal ==
  /\ Len(disc.calls) <= 49
  /\ Cardinality({ j \in 1..Len(disc.calls) : Len(disc.calls[j].play) = 0 }) <= 1
  /\ Cardinality({ j \in 1..Len(disc.calls) : Len(disc.calls[j].play) = 1 }) <= 8
  /\ Cardinality({ j \in 1..Len(disc.calls) : Len(disc.calls[j].play) = 2 }) <= 8 * 5
  /\ disc.pc = "done" =>
       /\ Len(disc.result) <= 40
       /\ \A k \in 1..Len(disc.result) : Len(disc.result[k].moves_sequence) = 2

\* a run that made all 49 calls against a provider listing nine first moves
\* and six continuations, and returned 40 lines
C30_Witness ==
  /\ disc.pc = "done"
  /\ Len(disc.calls) = 49
  /\ Len(disc.result) = 40
  /\ Len(disc.calls[1].moves) = 9

====
